---- MODULE Spec2Model ----
(***************************************************************************)
(* Model of Mutation::Transport::CollisionDBNew                            *)
(* (src/src/transport/CollisionDBNew.cpp): the species-pair index, the     *)
(* group classifier, the name-keyed cache of collision groups and the      *)
(* derived accessors.                                                      *)
(*                                                                         *)
(* Strings are sequences of one-character strings (1-based); C++ arrays    *)
(* and vectors are sequences whose position p holds C++ index p-1.         *)
(* Floating-point values that the code only passes through (molar masses,  *)
(* collision integrals) are kept symbolic: a factor is a record naming the *)
(* species whose molar mass it was computed from, an integral is a record  *)
(* naming the pair and the kind; the temperature a group was last          *)
(* evaluated at is kept with the group.                                    *)
(***************************************************************************)
EXTENDS Integers, Sequences, FiniteSets, TLC

\* ------------------------------------------------------------------ bounds
MaxSpecies == 3
MaxTemp    == 2
MaxNameLen == 3
MaxTable   == 2

\* --------------------------------------------------------------- constants
\* enum GroupType { EE = 0, EI, II, IJ, BAD_TYPE } (declared in the header)
EE       == 0
EI       == 1
II       == 2
IJ       == 3
BAD_TYPE == 4

\* defaults of the constructor's initialiser list
DefaultTmin == 300
DefaultTmax == 20000
DefaultDT   == 100
\* the relative tolerance of the whole-span check is 1.0e-15
TolDigits   == 15

Chars == {"Q", "1", "2", "e", "i", "j"}

Q11ee == <<"Q", "1", "1", "e", "e">>
Q11ei == <<"Q", "1", "1", "e", "i">>
Q22ii == <<"Q", "2", "2", "i", "i">>
Q11ij == <<"Q", "1", "1", "i", "j">>
Q11ej == <<"Q", "1", "1", "e", "j">>

\* names handed to group(): the four the accessors and callers use and a
\* name with an unknown suffix
GroupNames == {Q11ee, Q11ei, Q22ii, Q11ij, Q11ej}

RECURSIVE SeqsUpTo(_)
SeqsUpTo(n) ==
    IF n = 0 THEN {<<>>}
    ELSE LET S == SeqsUpTo(n - 1)
         IN  S \cup {Append(s, c) : s \in {t \in S : Len(t) = n - 1}, c \in Chars}

\* names handed to groupType() on its own
ClassifyNames == SeqsUpTo(MaxNameLen)

\* values of the attributes Tmin, Tmax and dT of the database's root element
TableValues == (-1 .. MaxTable) \cup {100, 300, 20000, 20050}

VARIABLES
    pc,            \* "new", "ready", "aborted" (constructor threw), "fault"
    root,          \* attributes of the database file's root element
    nSpecies,      \* thermo.nSpecies()
    hasElectrons,  \* thermo.hasElectrons()
    T,             \* thermo.T()
    Te,            \* thermo.Te()
    m_tabulate, m_table_min, m_table_max, m_table_del,
    m_pairs,
    m_etafac, m_Deifac, m_Dijfac,
    m_etai, m_nDei, m_nDij,
    m_groups,      \* name -> CollisionGroup
    requested,     \* history: names for which group() has returned a group
    name,          \* argument of the groupType() call under study
    result         \* what that call returned

vars == <<pc, root, nSpecies, hasElectrons, T, Te,
          m_tabulate, m_table_min, m_table_max, m_table_del,
          m_pairs, m_etafac, m_Deifac, m_Dijfac, m_etai, m_nDei, m_nDij,
          m_groups, requested, name, result>>

thermoVars == <<nSpecies, hasElectrons, T, Te>>
tableVars  == <<m_tabulate, m_table_min, m_table_max, m_table_del>>
facVars    == <<m_pairs, m_etafac, m_Deifac, m_Dijfac>>
classVars  == <<name, result>>

\* ------------------------------------------------- thermodynamics (read-only)
ElectronCount == IF hasElectrons THEN 1 ELSE 0
nHeavy == nSpecies - ElectronCount

\* ---------------------------------------------------------------- groupType
\* name[idx] for a C++ index idx; an index outside the string is an
\* out-of-bounds read, whose value is whatever byte lies there (oob)
CharAt(s, idx, oob) == IF idx >= 0 /\ idx < Len(s) THEN s[idx + 1] ELSE oob

groupTypeOfChars(c2, c1) ==
    IF c2 = "e" THEN
        IF c1 = "e" THEN EE
        ELSE IF c1 = "i" THEN EI
        ELSE BAD_TYPE
    ELSE IF c2 = "i" THEN
        IF c1 = "i" THEN II
        ELSE IF c1 = "j" THEN IJ
        ELSE BAD_TYPE
    ELSE BAD_TYPE

groupType(s, oob) ==
    LET len == Len(s)
    IN  groupTypeOfChars(CharAt(s, len - 2, oob[1]), CharAt(s, len - 1, oob[2]))

\* the bytes an out-of-bounds read can produce
OobBytes == (Chars \cup {"?"}) \X (Chars \cup {"?"})

\* -------------------------------------------------------------- constructor
\* XmlElement::getAttribute(name, value, default): the attribute when the
\* element has it (a one-element sequence), the default otherwise
getAttribute(attr, default) == IF attr = <<>> THEN default ELSE attr[1]

RECURSIVE DivPow10(_, _)
DivPow10(x, n) == IF n = 0 THEN x ELSE DivPow10(x \div 10, n - 1)

\* mutant: the fractional part is compared with 1 instead of a tolerance
MutWholeSpan(tmin, tmax, del) ==
    LET span == tmax - tmin
    IN  (span % del) < del

\* size = (max-min)/del;  abs(size-int(size))/size < 1.0e-15.
\* With span = max-min > 0 and del > 0 (both checked before), int(size) is
\* span \div del, size-int(size) is (span % del)/del, and the quotient by
\* size is (span % del)/span; it is below 10^-15 exactly when
\* (span % del) * 10^15 < span, that is (span % del) <= (span-1) \div 10^15.
WholeSpan(tmin, tmax, del) ==
    LET span == tmax - tmin
    IN  (span % del) <= DivPow10(span - 1, TolDigits)

\* the five parseCheck conditions, in order; each one that fails aborts
TableChecks(tmin, tmax, del) ==
    /\ tmin > 0
    /\ tmax > 0
    /\ del > 0
    /\ tmin < tmax
    /\ WholeSpan(tmin, tmax, del)

\* XmlElement::parseCheck(condition, message) throws when the condition fails
parseCheck(condition) == IF condition THEN "ok" ELSE "throw"

\* CollisionPairNew(species[i], species[j], &root)
CollisionPairNew(i, j) == <<i, j>>

RECURSIVE PairInner(_, _, _, _)
PairInner(i, j, n, pairs) ==
    IF j < n THEN PairInner(i, j + 1, n, Append(pairs, CollisionPairNew(i, j)))
    ELSE pairs

\* mutant: the inner loop starts at 0 instead of i
RECURSIVE MutPairOuter(_, _, _)
MutPairOuter(i, n, pairs) ==
    IF i < n THEN MutPairOuter(i + 1, n, PairInner(i, 0, n, pairs))
    ELSE pairs

RECURSIVE PairOuter(_, _, _)
PairOuter(i, n, pairs) ==
    IF i < n THEN PairOuter(i + 1, n, PairInner(i, i, n, pairs))
    ELSE pairs

SpeciesPairs(n) == PairOuter(0, n, <<>>)

\* an Eigen array of n doubles that nothing has written yet
Uninit == [uninit |-> TRUE]
ArrayXd(n) == [p \in 1 .. n |-> Uninit]

\* 5./16.*sqrt(PI*RU*Mw(i))
EtaFac(i) == [mw |-> i]
\* 3./16.*sqrt(TWOPI*RU/Mw(0)), and the same times 2./SQRT2
DeiFac(i) == [mw |-> 0, scaled |-> FALSE]
Scaled(f) == [f EXCEPT !.scaled = TRUE]
\* 3./16.*sqrt(TWOPI*RU*(Mw(i)+Mw(j))/(Mw(i)*Mw(j)))
DijFac(i, j) == [mwi |-> i, mwj |-> j]

\* arr(idx) = v for a C++ index idx
Store(arr, idx, v) == [arr EXCEPT ![idx + 1] = v]

\* mutant: the factor of species i is stored at i instead of i-k
RECURSIVE MutEtaFacLoop(_, _, _)
MutEtaFacLoop(i, k, arr) ==
    IF i < nSpecies THEN MutEtaFacLoop(i + 1, k, Store(arr, i, EtaFac(i)))
    ELSE arr

RECURSIVE EtaFacLoop(_, _, _)
EtaFacLoop(i, k, arr) ==
    IF i < nSpecies THEN EtaFacLoop(i + 1, k, Store(arr, i - k, EtaFac(i)))
    ELSE arr

EtaFactors ==
    LET k == nSpecies - nHeavy
    IN  EtaFacLoop(k, k, ArrayXd(nHeavy))

RECURSIVE DeiFacLoop(_, _)
DeiFacLoop(i, arr) ==
    IF i < nSpecies THEN DeiFacLoop(i + 1, Store(arr, i, DeiFac(i)))
    ELSE arr

DeiFactors ==
    LET k   == nSpecies - nHeavy
        arr == ArrayXd(nSpecies * ElectronCount)
    IN  IF k > 0
        THEN LET filled == DeiFacLoop(0, arr)
             IN  Store(filled, 0, Scaled(filled[1]))
        ELSE arr

\* the inner loop returns <<index, array>>
RECURSIVE DijFacInner(_, _, _, _)
DijFacInner(i, j, index, arr) ==
    IF j < nSpecies
    THEN DijFacInner(i, j + 1, index + 1, Store(arr, index, DijFac(i, j)))
    ELSE <<index, arr>>

RECURSIVE DijFacOuter(_, _, _)
DijFacOuter(i, index, arr) ==
    IF i < nSpecies
    THEN LET r == DijFacInner(i, i, index, arr)
         IN  DijFacOuter(i + 1, r[1], r[2])
    ELSE arr

DijFactors ==
    LET k == nSpecies - nHeavy
    IN  DijFacOuter(k, 0, ArrayXd((nHeavy * (nHeavy + 1)) \div 2))

Construct ==
    /\ pc = "new"
    /\ LET tab  == getAttribute(root.tabulate, TRUE)
           tmin == getAttribute(root.Tmin, DefaultTmin)
           tmax == getAttribute(root.Tmax, DefaultTmax)
           del  == getAttribute(root.dT, DefaultDT)
       IN  /\ m_tabulate' = tab
           /\ m_table_min' = tmin
           /\ m_table_max' = tmax
           /\ m_table_del' = del
           /\ IF tab /\ parseCheck(TableChecks(tmin, tmax, del)) = "throw"
              THEN /\ pc' = "aborted"
                   /\ UNCHANGED <<facVars, m_etai, m_nDei, m_nDij>>
              ELSE /\ pc' = "ready"
                   /\ m_pairs' = SpeciesPairs(nSpecies)
                   /\ m_etafac' = EtaFactors
                   /\ m_Deifac' = DeiFactors
                   /\ m_Dijfac' = DijFactors
                   /\ m_etai' = ArrayXd(nHeavy)
                   /\ m_nDei' = ArrayXd(nSpecies * ElectronCount)
                   /\ m_nDij' = ArrayXd((nHeavy * (nHeavy + 1)) \div 2)
    /\ UNCHANGED <<root, thermoVars, m_groups, requested, classVars>>

\* ----------------------------------------------------------- CollisionGroup
\* CollisionGroup(tabulate, min, max, del): manages nothing, never evaluated
CollisionGroup(tab, tmin, tmax, del) ==
    [table   |-> <<tab, tmin, tmax, del>>,
     kind    |-> <<>>,
     members |-> <<>>,
     temp    |-> <<>>]

\* CollisionGroup::manage(start, end, &CollisionPairNew::get, kind) takes the
\* pairs of [start, end) as its members, in order
manage(g, pairs, kind) == [g EXCEPT !.members = pairs, !.kind = kind]

\* CollisionGroup::update(T, thermo) evaluates every member at T
update(g, temp) == [g EXCEPT !.temp = <<temp>>]

\* the values a group holds: one integral per member, of the group's kind
\* and at the temperature of its last update
Values(g) ==
    [p \in 1 .. Len(g.members) |-> [pair |-> g.members[p], kind |-> g.kind]]

\* -------------------------------------------------------------------- group
\* mutant: every group is evaluated at the heavy temperature
MutGroupTemp(type) == T

\* (type < II ? m_thermo.Te() : m_thermo.T())
GroupTemp(type) == IF type < II THEN Te ELSE T

\* mutant: the index advances by ns-e-i-1
RECURSIVE MutDiagLoop(_, _, _, _)
MutDiagLoop(i, index, nh, diag) ==
    IF i < nh
    THEN MutDiagLoop(i + 1, index + (nh - i - 1), nh,
                     Append(diag, m_pairs[index + 1]))
    ELSE diag

\* for (int i = 0, index = k; i < ns-e; index += ns-e-i, i++)
\*     diag.push_back(m_pairs[index]);
RECURSIVE DiagLoop(_, _, _, _)
DiagLoop(i, index, nh, diag) ==
    IF i < nh
    THEN DiagLoop(i + 1, index + (nh - i), nh, Append(diag, m_pairs[index + 1]))
    ELSE diag

\* mutant: the heavy block is taken to start after e pairs, not e*ns
MutSelectMembers(type) ==
    LET ns == nSpecies
        e  == ElectronCount
        k  == e * ns
    IN  CASE type = EE -> SubSeq(m_pairs, 1, e)
          [] type = EI -> SubSeq(m_pairs, 1, k)
          [] type = IJ -> SubSeq(m_pairs, e + 1, Len(m_pairs))
          [] type = II -> DiagLoop(0, k, ns - e, <<>>)

\* the pairs of [start, end) after the switch, for the four group types
SelectMembers(type) ==
    LET ns == nSpecies
        e  == ElectronCount
        k  == e * ns
    IN  CASE type = EE -> SubSeq(m_pairs, 1, e)
          [] type = EI -> SubSeq(m_pairs, 1, k)
          [] type = IJ -> SubSeq(m_pairs, k + 1, Len(m_pairs))
          [] type = II -> DiagLoop(0, k, ns - e, <<>>)

\* name.substr(0, name.length()-2): a count beyond the end (length < 2 wraps
\* around) takes the whole string
Kind(s) == IF Len(s) >= 2 THEN SubSeq(s, 1, Len(s) - 2) ELSE s

\* std::map::insert: no effect when the key is already there
MapInsert(map, key, val) ==
    IF key \in DOMAIN map THEN map
    ELSE [x \in DOMAIN map \cup {key} |-> IF x = key THEN val ELSE map[x]]

\* mutant: a hit rebuilds the cache around the one entry
MutGroupHit(n, type) == [x \in {n} |-> update(m_groups[n], GroupTemp(type))]

\* an existing entry is re-evaluated in place
GroupHit(n, type) == [m_groups EXCEPT ![n] = update(@, GroupTemp(type))]

\* a new entry is inserted, given its members and evaluated
GroupMiss(n, type) ==
    LET inserted == MapInsert(m_groups, n,
                        CollisionGroup(m_tabulate, m_table_min, m_table_max,
                                       m_table_del))
    IN  IF type = BAD_TYPE
        THEN inserted
        ELSE [inserted EXCEPT ![n] =
                 update(manage(@, SelectMembers(type), Kind(n)), GroupTemp(type))]

\* the body of group(n); oob is what an out-of-bounds read of the name
\* yields, ndebug says whether assert() is compiled out
GroupCall(n, oob, ndebug) ==
    LET type == groupType(n, oob)
    IN  IF type = BAD_TYPE /\ ~ndebug
        THEN \* assert(type != BAD_TYPE) aborts
             /\ pc' = "fault"
             /\ UNCHANGED <<m_groups, requested>>
        ELSE IF n \in DOMAIN m_groups
        THEN /\ m_groups' = GroupHit(n, type)
             /\ pc' = "ready"
             /\ requested' = requested \cup {n}
        ELSE /\ m_groups' = GroupMiss(n, type)
             \* the switch's default branch: exit(1)
             /\ pc' = IF type = BAD_TYPE THEN "fault" ELSE "ready"
             /\ requested' = IF type = BAD_TYPE THEN requested
                             ELSE requested \cup {n}

\* the out-of-bounds bytes matter only to a name shorter than two characters
OobChoices(n) == IF Len(n) < 2 THEN OobBytes ELSE {<<"?", "?">>}

group(n) ==
    /\ pc = "ready"
    /\ \E oob \in OobChoices(n), ndebug \in BOOLEAN : GroupCall(n, oob, ndebug)
    /\ UNCHANGED <<root, thermoVars, tableVars, facVars, m_etai, m_nDei, m_nDij,
                   classVars>>

\* ---------------------------------------------------------------- accessors
\* sqrt(temp) * fac / q, coefficient by coefficient over fac's length; a
\* coefficient q does not have is read out of bounds.  A coefficient is kept
\* as the factor and the integral it was computed from.
Quotient(fac, q) ==
    [p \in 1 .. Len(fac) |->
        [fac |-> fac[p], Q |-> IF p <= Len(q) THEN q[p] ELSE [oob |-> TRUE]]]

\* Q22ii(), Q11ei(), Q11ij(): group("Q22ii") and so on
etai ==
    /\ pc = "ready"
    /\ \E ndebug \in BOOLEAN : GroupCall(Q22ii, <<"?", "?">>, ndebug)
    /\ m_etai' = IF pc' = "ready"
                 THEN Quotient(m_etafac, Values(m_groups'[Q22ii]))
                 ELSE m_etai
    /\ UNCHANGED <<root, thermoVars, tableVars, facVars, m_nDei, m_nDij, classVars>>

\* mutant: the group is requested whatever the size of m_nDei
MutnDei ==
    /\ pc = "ready"
    /\ \E ndebug \in BOOLEAN : GroupCall(Q11ei, <<"?", "?">>, ndebug)
    /\ m_nDei' = IF pc' = "ready"
                 THEN Quotient(m_Deifac, Values(m_groups'[Q11ei]))
                 ELSE m_nDei
    /\ UNCHANGED <<root, thermoVars, tableVars, facVars, m_etai, m_nDij, classVars>>

nDei ==
    /\ pc = "ready"
    /\ IF Len(m_nDei) > 0
       THEN /\ \E ndebug \in BOOLEAN : GroupCall(Q11ei, <<"?", "?">>, ndebug)
            /\ m_nDei' = IF pc' = "ready"
                         THEN Quotient(m_Deifac, Values(m_groups'[Q11ei]))
                         ELSE m_nDei
       ELSE UNCHANGED <<pc, m_groups, requested, m_nDei>>
    /\ UNCHANGED <<root, thermoVars, tableVars, facVars, m_etai, m_nDij, classVars>>

nDij ==
    /\ pc = "ready"
    /\ \E ndebug \in BOOLEAN : GroupCall(Q11ij, <<"?", "?">>, ndebug)
    /\ m_nDij' = IF pc' = "ready"
                 THEN Quotient(m_Dijfac, Values(m_groups'[Q11ij]))
                 ELSE m_nDij
    /\ UNCHANGED <<root, thermoVars, tableVars, facVars, m_etai, m_nDei, classVars>>

\* the thermodynamic state moves to other temperatures between calls
SetTemperature(t, te) ==
    /\ pc = "ready"
    /\ <<t, te>> # <<T, Te>>
    /\ T' = t
    /\ Te' = te
    /\ UNCHANGED <<pc, root, nSpecies, hasElectrons, tableVars, facVars,
                   m_etai, m_nDei, m_nDij, m_groups, requested, classVars>>

\* groupType(name) called on its own
groupTypeCall ==
    /\ pc = "static"
    /\ result = <<>>
    /\ \E oob \in OobChoices(name) : result' = <<groupType(name, oob)>>
    /\ UNCHANGED <<pc, root, thermoVars, tableVars, facVars, m_etai, m_nDei,
                   m_nDij, m_groups, requested, name>>

\* ------------------------------------------------------------ specifications
NoAttributes == [tabulate |-> <<>>, Tmin |-> <<>>, Tmax |-> <<>>, dT |-> <<>>]

\* database files of the main specification: no attributes at all (every
\* default) and a span that is no whole number; SpecConfig covers the rest
MainRoots ==
    {NoAttributes,
     [NoAttributes EXCEPT !.Tmax = <<20050>>]}

Optional(S) == {<<>>} \cup {<<v>> : v \in S}

AllRoots ==
    [tabulate : Optional(BOOLEAN), Tmin : Optional(TableValues),
     Tmax : Optional(TableValues), dT : Optional(TableValues)]

InitFields ==
    /\ m_tabulate = TRUE
    /\ m_table_min = DefaultTmin
    /\ m_table_max = DefaultTmax
    /\ m_table_del = DefaultDT
    /\ m_pairs = <<>>
    /\ m_etafac = <<>>
    /\ m_Deifac = <<>>
    /\ m_Dijfac = <<>>
    /\ m_etai = <<>>
    /\ m_nDei = <<>>
    /\ m_nDij = <<>>
    /\ m_groups = <<>>
    /\ requested = {}

Init ==
    /\ pc = "new"
    /\ root \in MainRoots
    /\ nSpecies \in 1 .. MaxSpecies
    /\ hasElectrons \in BOOLEAN
    /\ T \in 1 .. MaxTemp
    /\ Te \in 1 .. MaxTemp
    /\ InitFields
    /\ name = <<>>
    /\ result = <<>>

Next ==
    \/ Construct
    \/ \E n \in GroupNames : group(n)
    \/ etai
    \/ nDei
    \/ nDij
    \/ \E t \in 1 .. MaxTemp, te \in 1 .. MaxTemp : SetTemperature(t, te)

Spec == Init /\ [][Next]_vars

\* construction alone, over every database file
InitConfig ==
    /\ pc = "new"
    /\ root \in AllRoots
    /\ nSpecies \in 1 .. MaxSpecies
    /\ hasElectrons \in BOOLEAN
    /\ T = 1
    /\ Te = 1
    /\ InitFields
    /\ name = <<>>
    /\ result = <<>>

NextConfig == Construct

SpecConfig == InitConfig /\ [][NextConfig]_vars

\* groupType alone, over every name
InitClassify ==
    /\ pc = "static"
    /\ root = NoAttributes
    /\ nSpecies = 1
    /\ hasElectrons = FALSE
    /\ T = 1
    /\ Te = 1
    /\ InitFields
    /\ name \in ClassifyNames
    /\ result = <<>>

NextClassify == groupTypeCall

SpecClassify == InitClassify /\ [][NextClassify]_vars

\* ===================================================================== claims
Suffix(s) == SubSeq(s, Len(s) - 1, Len(s))
Live == pc \in {"ready", "fault"}
Species == 0 .. nSpecies - 1
Heavy == ElectronCount .. nSpecies - 1
Range(f) == {f[p] : p \in DOMAIN f}
\* the linear index of pair (i,j), i <= j, among the pairs of n species
PairIndex(i, j, n) == i * n - (i * (i - 1)) \div 2 + (j - i)

\* C1: a group whose name ends in "ii" has as members exactly the heavy
\* diagonal pairs (i,i), one per heavy species in ascending order, each the
\* pair found at the index of (i,i) in the species-pair index.
C1_DiagonalMembers ==
    \A n \in DOMAIN m_groups :
        Suffix(n) = <<"i", "i">> =>
            /\ Len(m_groups[n].members) = nHeavy
            /\ \A p \in 1 .. nHeavy :
                  LET i == p - 1 + ElectronCount
                  IN  /\ m_groups[n].members[p] = <<i, i>>
                      /\ m_groups[n].members[p]
                             = m_pairs[PairIndex(i, i, nSpecies) + 1]

C1_Witness ==
    /\ pc = "ready"
    /\ hasElectrons
    /\ nSpecies = 3
    /\ Q22ii \in DOMAIN m_groups

\* C2: a group whose name ends in "ee" has the first e pairs (the electron
\* self-pair or nothing), one ending in "ei" the first e*nSpecies pairs, which
\* are the pairs (electron, j) for every species j, and one ending in "ij" the
\* pairs from index e*nSpecies on, which are all heavy pairs (i,j), i <= j,
\* each once, and no pair with the electron.
C2_RangeMembers ==
    \A n \in DOMAIN m_groups :
        LET mem == m_groups[n].members
            e   == ElectronCount
        IN  /\ Suffix(n) = <<"e", "e">> =>
                  /\ mem = SubSeq(m_pairs, 1, e)
                  /\ mem = IF hasElectrons THEN <<(<<0, 0>>)>> ELSE <<>>
            /\ Suffix(n) = <<"e", "i">> =>
                  /\ mem = SubSeq(m_pairs, 1, e * nSpecies)
                  /\ mem = [p \in 1 .. e * nSpecies |-> <<0, p - 1>>]
            /\ Suffix(n) = <<"i", "j">> =>
                  /\ mem = SubSeq(m_pairs, e * nSpecies + 1, Len(m_pairs))
                  /\ Range(mem) = {<<i, j>> : i \in Heavy, j \in Heavy} \cap
                                  {q \in Range(m_pairs) : q[1] <= q[2]}
                  /\ Len(mem) = (nHeavy * (nHeavy + 1)) \div 2

C2_Witness ==
    /\ pc = "ready"
    /\ hasElectrons
    /\ nSpecies = 3
    /\ {Q11ee, Q11ei, Q11ij} \subseteq DOMAIN m_groups

\* C3: while only valid names are requested, the cache holds exactly one entry
\* per name requested so far; a call with a cached name neither inserts nor
\* removes an entry and returns the entry that was there, a call with a new
\* name inserts exactly that entry, and no entry is ever evicted.
C3_Step ==
    (pc = "ready" /\ pc' = "ready") =>
        /\ DOMAIN m_groups' = requested'
        /\ DOMAIN m_groups \subseteq DOMAIN m_groups'
        /\ \A n \in GroupNames :
              group(n) =>
                  IF n \in DOMAIN m_groups
                  THEN /\ DOMAIN m_groups' = DOMAIN m_groups
                       /\ m_groups'[n].members = m_groups[n].members
                       /\ m_groups'[n].kind = m_groups[n].kind
                  ELSE DOMAIN m_groups' = DOMAIN m_groups \cup {n}

C3_CacheOnePerName == [][C3_Step]_vars

C3_Witness ==
    /\ pc = "ready"
    /\ requested = {Q11ee, Q11ei, Q22ii, Q11ij}
    /\ m_groups[Q11ee].temp # m_groups[Q11ei].temp

\* C4: every call of group(name) that returns, the creating one and every
\* later one, leaves the entry evaluated at the current electron temperature
\* when the name ends in "ee" or "ei" and at the current heavy temperature
\* when it ends in "ii" or "ij"; the accessors evaluate their groups likewise.
ExpectedTemp(n) == IF Suffix(n) \in {<<"e", "e">>, <<"e", "i">>} THEN Te ELSE T

C4_Step ==
    /\ \A n \in GroupNames :
          (group(n) /\ pc' = "ready") => m_groups'[n].temp = <<ExpectedTemp(n)>>
    /\ (etai /\ pc' = "ready") => m_groups'[Q22ii].temp = <<T>>
    /\ (nDei /\ hasElectrons /\ pc' = "ready") => m_groups'[Q11ei].temp = <<Te>>
    /\ (nDij /\ pc' = "ready") => m_groups'[Q11ij].temp = <<T>>

C4_CurrentTemperature == [][C4_Step]_vars

C4_Witness ==
    /\ pc = "ready"
    /\ T = 1
    /\ Te = 2
    /\ {Q11ee, Q11ei, Q22ii} \subseteq DOMAIN m_groups
    /\ m_groups[Q11ei].temp = <<2>>
    /\ m_groups[Q11ee].temp = <<1>>
    /\ m_groups[Q22ii].temp = <<1>>

\* C5: groupType returns EE, EI, II, IJ for a name ending in "ee", "ei", "ii",
\* "ij" and BAD_TYPE for every other name, a name of fewer than two characters
\* included.
ExpectedType(s) ==
    IF Len(s) < 2 THEN BAD_TYPE
    ELSE CASE Suffix(s) = <<"e", "e">> -> EE
           [] Suffix(s) = <<"e", "i">> -> EI
           [] Suffix(s) = <<"i", "i">> -> II
           [] Suffix(s) = <<"i", "j">> -> IJ
           [] OTHER -> BAD_TYPE

C5_Classify == result # <<>> => result = <<ExpectedType(name)>>

\* C6: the species-pair index of n species has n(n+1)/2 entries and holds pair
\* (i,j), 0 <= i <= j < n, at linear index i*n - i*(i-1)/2 + (j-i), hence each
\* pair exactly once, in the order i ascending, then j ascending from i.
C6_PairIndex ==
    Live =>
        /\ Len(m_pairs) = (nSpecies * (nSpecies + 1)) \div 2
        /\ \A i \in Species, j \in Species :
              i <= j => m_pairs[PairIndex(i, j, nSpecies) + 1] = <<i, j>>

C6_Witness ==
    /\ pc = "ready"
    /\ nSpecies = 3
    /\ Len(m_pairs) = 6

\* C7: with tabulation enabled, construction is aborted exactly when Tmin,
\* Tmax or dT is not positive, or Tmin >= Tmax, or (Tmax-Tmin)/dT is no whole
\* number; {300, 20000, 100} is accepted and {300, 20050, 100} is rejected.
BadTable ==
    \/ m_table_min <= 0
    \/ m_table_max <= 0
    \/ m_table_del <= 0
    \/ m_table_min >= m_table_max
    \/ \A q \in 1 .. m_table_max : q * m_table_del # m_table_max - m_table_min

C8_Step ==
    /\ (pc' \in {"ready", "fault"}) =>
          Len(m_nDei') = IF hasElectrons THEN nSpecies ELSE 0
    /\ (nDei /\ ~hasElectrons) => (m_groups' = m_groups /\ m_nDei' = <<>>)
    /\ (nDei /\ hasElectrons /\ pc' = "ready") =>
          /\ Q11ei \in DOMAIN m_groups'
          /\ \A p \in 1 .. nSpecies :
                m_nDei'[p] = [fac |-> m_Deifac[p],
                             Q |-> Values(m_groups'[Q11ei])[p]]

C8_nDeiSize == [][C8_Step]_vars

C8_Witness ==
    /\ pc = "ready"
    /\ hasElectrons
    /\ nSpecies = 3
    /\ Len(m_nDei) = 3
    /\ \A p \in 1 .. 3 : m_nDei[p] # Uninit

\* C9: a call of group(name) that ends in the fault for an invalid name leaves
\* the cache of groups as it was.
C9_Step == \A n \in GroupNames : (group(n) /\ pc' = "fault") => m_groups' = m_groups

C9_FaultBeforeCache == [][C9_Step]_vars

\* C10: the factor arrays line up with the members of the groups they divide
\* by: m_etafac has nHeavy entries and entry p is that of the heavy species of
\* member p of "Q22ii"; m_Dijfac has nHeavy(nHeavy+1)/2 entries and entry p is
\* that of the heavy pair that is member p of "Q11ij"; with electrons m_Deifac
\* has nSpecies entries, entry p going with member (electron, p) of "Q11ei",
\* and only the electron-electron entry carries the 2/sqrt(2) scaling.
C10_Aligned ==
    Live =>
        /\ Len(m_etafac) = nHeavy
        /\ m_etafac = [p \in 1 .. nHeavy |-> EtaFac(p - 1 + ElectronCount)]
        /\ Q22ii \in DOMAIN m_groups =>
              LET mem == m_groups[Q22ii].members
              IN  /\ Len(mem) = Len(m_etafac)
                  /\ \A p \in 1 .. Len(mem) :
                        /\ mem[p][1] = mem[p][2]
                        /\ m_etafac[p] = [mw |-> mem[p][1]]
        /\ Len(m_Dijfac) = (nHeavy * (nHeavy + 1)) \div 2
        /\ \A p \in 1 .. Len(m_Dijfac) :
              m_Dijfac[p] = [mwi |-> m_pairs[ElectronCount * nSpecies + p][1],
                             mwj |-> m_pairs[ElectronCount * nSpecies + p][2]]
        /\ Q11ij \in DOMAIN m_groups =>
              LET mem == m_groups[Q11ij].members
              IN  /\ Len(mem) = Len(m_Dijfac)
                  /\ \A p \in 1 .. Len(mem) :
                        m_Dijfac[p] = [mwi |-> mem[p][1], mwj |-> mem[p][2]]
        /\ Len(m_Deifac) = IF hasElectrons THEN nSpecies ELSE 0
        /\ \A p \in 1 .. Len(m_Deifac) :
              m_Deifac[p] = [mw |-> 0, scaled |-> (p = 1)]
        /\ (hasElectrons /\ Q11ei \in DOMAIN m_groups) =>
              LET mem == m_groups[Q11ei].members
              IN  /\ Len(mem) = Len(m_Deifac)
                  /\ \A p \in 1 .. Len(mem) :
                        /\ mem[p] = <<0, p - 1>>
                        /\ m_Deifac[p] = [mw |-> 0, scaled |-> (mem[p] = <<0, 0>>)]

C10_Witness ==
    /\ pc = "ready"
    /\ hasElectrons
    /\ nSpecies = 3
    /\ {Q22ii, Q11ei, Q11ij} \subseteq DOMAIN m_groups
    /\ m_etai # ArrayXd(nHeavy)
    /\ m_nDij # ArrayXd(3)

====
